---- MODULE Spec2Model ----
(***************************************************************************)
(* Beam propagation through a rectangular field of mirrors and splitters   *)
(* (src/src/main.rs): MirrorField::parse, get_next_positions, get_power    *)
(* and the border scans of main.                                           *)
(*                                                                         *)
(* Positions are (x, y) pairs, 0-based as in the source; matrix is a       *)
(* sequence of rows, so the source's matrix[y][x] is matrix[y+1][x+1].     *)
(***************************************************************************)
EXTENDS Integers, Sequences, FiniteSets

VARIABLES
    matrix,          \* MirrorField.matrix
    pc,              \* position of get_power: idle, loop, returned, panicked
    beams,           \* get_power's argument
    current_beams,   \* get_power local (a Vec: order and multiplicity kept)
    previous_beams,  \* get_power local (BTreeSet<Beam>)
    powered,         \* get_power local (BTreeSet<(usize, usize)>)
    steps,           \* get_power local
    expansions,      \* the get_next_positions calls of the last loop body
    warned,          \* "WARN: unfinished beams!" was printed by the running call
    result,          \* value returned by the running call (0 until it returns)
    mainPc,          \* position of main: first, west, east, north, south, done
    idx,             \* main: index of the running border scan
    best,            \* main: running maximum of the border scan
    outputs,         \* main: the numbers printed so far
    calls,           \* main: the beams passed to get_power so far, in order
    prior            \* outcome of the first of two equal calls (<<>> when none)

vars == <<matrix, pc, beams, current_beams, previous_beams, powered, steps,
          expansions, warned, result, mainPc, idx, best, outputs, calls, prior>>

powerVars == <<beams, current_beams, previous_beams, powered, steps,
               expansions, warned, result>>
mainVars == <<mainPc, idx, best, outputs, calls>>

-----------------------------------------------------------------------------
(* Bounds and program constants *)

MAX_STEPS == 1000

MaxCells == 4
LongW == 1001

-----------------------------------------------------------------------------
(* Types *)

MirrorType ==
    {"Empty", "PositiveMirror", "NegativeMirror", "VerticalSplitter", "HorizontalSplitter"}

Direction == {"North", "South", "East", "West"}

Beam(pos, dir) == [position |-> pos, direction |-> dir]

Chars == {".", "/", "\\", "|", "-"}

Range(s) == {s[i] : i \in 1..Len(s)}

-----------------------------------------------------------------------------
(* MirrorField::parse *)

ParseChar(c) ==
    CASE c = "."  -> "Empty"
      [] c = "/"  -> "PositiveMirror"
      [] c = "\\" -> "NegativeMirror"
      [] c = "|"  -> "VerticalSplitter"
      [] c = "-"  -> "HorizontalSplitter"

parse(lines) ==
    [i \in 1..Len(lines) |-> [j \in 1..Len(lines[i]) |-> ParseChar(lines[i][j])]]

Height(m) == Len(m)
Width(m) == Len(m[1])

InGrid(m, pos) ==
    /\ pos[2] >= 0 /\ pos[2] < Len(m)
    /\ pos[1] >= 0 /\ pos[1] < Len(m[pos[2] + 1])

CellAt(m, pos) == m[pos[2] + 1][pos[1] + 1]

-----------------------------------------------------------------------------
(* MirrorField::get_next_positions *)

\* The directions the matched arm tries to push, in the order of its pushes.
ArmSwappedMirror(direction, cell) ==
    CASE direction = "East" /\ cell = "PositiveMirror" -> <<"South">>
      [] direction = "West" /\ cell = "NegativeMirror" -> <<"North">>
      [] direction = "North" /\ cell \in {"VerticalSplitter", "Empty"} -> <<"North">>
      [] direction = "East" /\ cell = "NegativeMirror" -> <<"North">>
      [] direction = "West" /\ cell = "PositiveMirror" -> <<"South">>
      [] direction = "South" /\ cell \in {"VerticalSplitter", "Empty"} -> <<"South">>
      [] direction = "South" /\ cell = "PositiveMirror" -> <<"West">>
      [] direction = "North" /\ cell = "NegativeMirror" -> <<"West">>
      [] direction = "West" /\ cell \in {"HorizontalSplitter", "Empty"} -> <<"West">>
      [] direction = "South" /\ cell = "NegativeMirror" -> <<"East">>
      [] direction = "North" /\ cell = "PositiveMirror" -> <<"East">>
      [] direction = "East" /\ cell \in {"HorizontalSplitter", "Empty"} -> <<"East">>
      [] direction \in {"North", "South"} /\ cell = "HorizontalSplitter" -> <<"West", "East">>
      [] direction \in {"East", "West"} /\ cell = "VerticalSplitter" -> <<"North", "South">>

Arm(direction, cell) ==
    CASE direction = "East" /\ cell = "PositiveMirror" -> <<"North">>
      [] direction = "West" /\ cell = "NegativeMirror" -> <<"North">>
      [] direction = "North" /\ cell \in {"VerticalSplitter", "Empty"} -> <<"North">>
      [] direction = "East" /\ cell = "NegativeMirror" -> <<"South">>
      [] direction = "West" /\ cell = "PositiveMirror" -> <<"South">>
      [] direction = "South" /\ cell \in {"VerticalSplitter", "Empty"} -> <<"South">>
      [] direction = "South" /\ cell = "PositiveMirror" -> <<"West">>
      [] direction = "North" /\ cell = "NegativeMirror" -> <<"West">>
      [] direction = "West" /\ cell \in {"HorizontalSplitter", "Empty"} -> <<"West">>
      [] direction = "South" /\ cell = "NegativeMirror" -> <<"East">>
      [] direction = "North" /\ cell = "PositiveMirror" -> <<"East">>
      [] direction = "East" /\ cell \in {"HorizontalSplitter", "Empty"} -> <<"East">>
      [] direction \in {"North", "South"} /\ cell = "HorizontalSplitter" -> <<"West", "East">>
      [] direction \in {"East", "West"} /\ cell = "VerticalSplitter" -> <<"North", "South">>

\* The `if` in front of each push.
GuardOffByOne(m, pos, d) ==
    CASE d = "North" -> pos[2] > 0
      [] d = "South" -> pos[2] < Len(m) - 1
      [] d = "West"  -> pos[1] > 0
      [] d = "East"  -> pos[1] < Len(m[1])

GuardSouthOffByOne(m, pos, d) ==
    CASE d = "North" -> pos[2] > 0
      [] d = "South" -> pos[2] < Len(m)
      [] d = "West"  -> pos[1] > 0
      [] d = "East"  -> pos[1] < Len(m[1]) - 1

Guard(m, pos, d) ==
    CASE d = "North" -> pos[2] > 0
      [] d = "South" -> pos[2] < Len(m) - 1
      [] d = "West"  -> pos[1] > 0
      [] d = "East"  -> pos[1] < Len(m[1]) - 1

\* The position of the pushed beam.
Advance(pos, d) ==
    CASE d = "North" -> <<pos[1], pos[2] - 1>>
      [] d = "South" -> <<pos[1], pos[2] + 1>>
      [] d = "West"  -> <<pos[1] - 1, pos[2]>>
      [] d = "East"  -> <<pos[1] + 1, pos[2]>>

get_next_positions(m, beam) ==
    LET tried == Arm(beam.direction, CellAt(m, beam.position))
        kept == SelectSeq(tried, LAMBDA d : Guard(m, beam.position, d))
    IN [i \in 1..Len(kept) |-> Beam(Advance(beam.position, kept[i]), kept[i])]

-----------------------------------------------------------------------------
(* MirrorField::get_power *)

LoopCondInclusive(n, cur) == n <= MAX_STEPS /\ cur # <<>>

LoopCond(n, cur) == n < MAX_STEPS /\ cur # <<>>

RECURSIVE FlatMapNext(_, _)
FlatMapNext(m, cur) ==
    IF cur = <<>> THEN <<>>
    ELSE get_next_positions(m, Head(cur)) \o FlatMapNext(m, Tail(cur))

FilterNone(nexts, seen) == nexts

FilterByPosition(nexts, seen) ==
    SelectSeq(nexts, LAMBDA np : np.position \notin {b.position : b \in seen})

FilterInverted(nexts, seen) == SelectSeq(nexts, LAMBDA np : np \in seen)

Filter(nexts, seen) == SelectSeq(nexts, LAMBDA np : np \notin seen)

\* powered.extend(positions of the current beams).
ExtendReplacing(pw, cur) == {b.position : b \in Range(cur)}

Extend(pw, cur) == pw \cup {b.position : b \in Range(cur)}

PowerOfBeams(pw, seen) == Cardinality(seen)

Power(pw, seen) == Cardinality(pw)

\* Entry of get_power: the locals as initialised on lines 138-142.
EnterKeepingSeen(bs) ==
    /\ beams' = bs
    /\ powered' = {}
    /\ current_beams' = bs
    /\ previous_beams' = previous_beams
    /\ steps' = 0
    /\ expansions' = {}
    /\ warned' = FALSE
    /\ result' = 0
    /\ pc' = "loop"

Enter(bs) ==
    /\ beams' = bs
    /\ powered' = {}
    /\ current_beams' = bs
    /\ previous_beams' = {}
    /\ steps' = 0
    /\ expansions' = {}
    /\ warned' = FALSE
    /\ result' = 0
    /\ pc' = "loop"

\* One run of the loop body; the indexing matrix[y][x] panics off the grid.
LoopStep ==
    /\ pc = "loop"
    /\ LoopCond(steps, current_beams)
    /\ powered' = Extend(powered, current_beams)
    /\ previous_beams' = previous_beams \cup Range(current_beams)
    /\ IF \A b \in Range(current_beams) : InGrid(matrix, b.position)
       THEN /\ current_beams' = Filter(FlatMapNext(matrix, current_beams), previous_beams')
            /\ expansions' = {[beam |-> b, next |-> get_next_positions(matrix, b)] :
                                b \in Range(current_beams)}
            /\ steps' = steps + 1
            /\ pc' = "loop"
       ELSE /\ pc' = "panicked"
            /\ UNCHANGED <<current_beams, expansions, steps>>
    /\ UNCHANGED <<matrix, beams, warned, result, mainVars, prior>>

\* Loop exit, the warning and the return value.
LoopExit ==
    /\ pc = "loop"
    /\ ~LoopCond(steps, current_beams)
    /\ warned' = (current_beams # <<>>)
    /\ result' = Power(powered, previous_beams)
    /\ pc' = "returned"
    /\ UNCHANGED <<matrix, beams, current_beams, previous_beams, powered, steps,
                   expansions, mainVars, prior>>

-----------------------------------------------------------------------------
(* main *)

FirstBeamSouth == Beam(<<0, 0>>, "South")

FirstBeam == Beam(<<0, 0>>, "East")

\* The range each border scan iterates over.
ScanCount(m, phase) ==
    CASE phase = "west"  -> Len(m)
      [] phase = "east"  -> Len(m)
      [] phase = "north" -> Len(m[1])
      [] phase = "south" -> Len(m)

ScanBeamNorthOutward(m, phase, i) ==
    CASE phase = "west"  -> Beam(<<0, i>>, "East")
      [] phase = "east"  -> Beam(<<Len(m[1]) - 1, i>>, "West")
      [] phase = "north" -> Beam(<<i, 0>>, "North")
      [] phase = "south" -> Beam(<<i, Len(m) - 1>>, "North")

\* The starting beam a border scan builds for index i.
ScanBeam(m, phase, i) ==
    CASE phase = "west"  -> Beam(<<0, i>>, "East")
      [] phase = "east"  -> Beam(<<Len(m[1]) - 1, i>>, "West")
      [] phase = "north" -> Beam(<<i, 0>>, "South")
      [] phase = "south" -> Beam(<<i, Len(m) - 1>>, "North")

NextPhase(phase) ==
    CASE phase = "first" -> "west"
      [] phase = "west"  -> "east"
      [] phase = "east"  -> "north"
      [] phase = "north" -> "south"
      [] phase = "south" -> "done"

Max2(a, b) == IF a >= b THEN a ELSE b

\* main calls get_power: once for the first query, once per scan index.
MainCall ==
    /\ pc = "idle"
    /\ mainPc \in {"first", "west", "east", "north", "south"}
    /\ LET b == IF mainPc = "first" THEN FirstBeam ELSE ScanBeam(matrix, mainPc, idx)
       IN /\ Enter(<<b>>)
          /\ calls' = Append(calls, b)
    /\ UNCHANGED <<matrix, mainPc, idx, best, outputs, prior>>

\* main takes the returned value: prints it, or folds it into the scan maximum
\* and prints the maximum after the last index.
MainCollect ==
    /\ pc = "returned"
    /\ mainPc \in {"first", "west", "east", "north", "south"}
    /\ pc' = "idle"
    /\ IF mainPc = "first"
       THEN /\ outputs' = Append(outputs, result)
            /\ mainPc' = NextPhase(mainPc)
            /\ idx' = 0
            /\ best' = 0
       ELSE IF idx + 1 < ScanCount(matrix, mainPc)
            THEN /\ idx' = idx + 1
                 /\ best' = Max2(best, result)
                 /\ UNCHANGED <<outputs, mainPc>>
            ELSE /\ outputs' = Append(outputs, Max2(best, result))
                 /\ mainPc' = NextPhase(mainPc)
                 /\ idx' = 0
                 /\ best' = 0
    /\ UNCHANGED <<matrix, powerVars, calls, prior>>

-----------------------------------------------------------------------------
(* Inputs *)

\* Every rectangular text of at most MaxCells characters over the alphabet.
SmallShapes == {wh \in (1..MaxCells) \X (1..MaxCells) : wh[1] * wh[2] <= MaxCells}

SmallLines == UNION {[1..wh[2] -> [1..wh[1] -> Chars]] : wh \in SmallShapes}

\* The 10x10 reference layout.
RefLines ==
    << <<".", "|", ".", ".", ".", "\\", ".", ".", ".", ".">>,
       <<"|", ".", "-", ".", "\\", ".", ".", ".", ".", ".">>,
       <<".", ".", ".", ".", ".", "|", "-", ".", ".", ".">>,
       <<".", ".", ".", ".", ".", ".", ".", ".", "|", ".">>,
       <<".", ".", ".", ".", ".", ".", ".", ".", ".", ".">>,
       <<".", ".", ".", ".", ".", ".", ".", ".", ".", "\\">>,
       <<".", ".", ".", ".", "/", ".", "\\", "\\", ".", ".">>,
       <<".", "-", ".", "-", "/", ".", ".", "|", ".", ".">>,
       <<".", "|", ".", ".", ".", ".", "-", "|", ".", "\\">>,
       <<".", ".", "/", "/", ".", "|", ".", ".", ".", ".">> >>

\* A 2x3 layout on which the two halves of a split beam meet again.
DupLines ==
    << <<"/", "\\">>,
       <<"|", "-">>,
       <<"\\", "/">> >>

\* One row of LongW empty cells.
LongLines == << [j \in 1..LongW |-> "."] >>

AllBeams(m) ==
    {Beam(<<x, y>>, d) : x \in 0..(Width(m) - 1), y \in 0..(Height(m) - 1), d \in Direction}

-----------------------------------------------------------------------------
(* Specifications *)

InitLocals ==
    /\ pc = "idle"
    /\ beams = <<>>
    /\ current_beams = <<>>
    /\ previous_beams = {}
    /\ powered = {}
    /\ steps = 0
    /\ expansions = {}
    /\ warned = FALSE
    /\ result = 0
    /\ idx = 0
    /\ best = 0
    /\ outputs = <<>>
    /\ calls = <<>>
    /\ prior = <<>>

\* get_power called with any single in-bounds beam, any number of times.
Init ==
    /\ matrix \in {parse(l) : l \in SmallLines \cup {RefLines, DupLines}}
    /\ mainPc = "none"
    /\ InitLocals

Call ==
    /\ pc \in {"idle", "returned"}
    /\ mainPc = "none"
    /\ \E b \in AllBeams(matrix) : Enter(<<b>>)
    /\ UNCHANGED <<matrix, mainVars, prior>>

Next == Call \/ LoopStep \/ LoopExit

Spec == Init /\ [][Next]_vars

\* The run of main on a loaded field.
InitMain ==
    /\ matrix \in {parse(l) : l \in SmallLines \cup {RefLines, LongLines}}
    /\ mainPc = "first"
    /\ InitLocals

NextMain == MainCall \/ LoopStep \/ LoopExit \/ MainCollect

SpecMain == InitMain /\ [][NextMain]_vars

\* get_power called with any single in-bounds beam, then once more with the
\* same beam on the same field.
InitTwice ==
    /\ matrix \in {parse(l) : l \in SmallLines \cup {RefLines, DupLines}}
    /\ mainPc = "twice"
    /\ InitLocals

CallFirst ==
    /\ pc = "idle"
    /\ mainPc = "twice"
    /\ \E b \in AllBeams(matrix) : Enter(<<b>>)
    /\ UNCHANGED <<matrix, mainVars, prior>>

CallAgain ==
    /\ pc = "returned"
    /\ mainPc = "twice"
    /\ prior = <<>>
    /\ prior' = [matrix |-> matrix, beams |-> beams, result |-> result,
                 warned |-> warned, steps |-> steps, powered |-> powered,
                 previous_beams |-> previous_beams, current_beams |-> current_beams]
    /\ Enter(beams)
    /\ UNCHANGED <<matrix, mainVars>>

NextTwice == CallFirst \/ CallAgain \/ LoopStep \/ LoopExit

SpecTwice == InitTwice /\ [][NextTwice]_vars

\* The run of main from the loading of the field, on texts whose lines need
\* not have equal lengths and on the text of no line.
RECURSIVE Shapes(_)
Shapes(n) == {<<>>} \cup UNION {{<<k>> \o sh : sh \in Shapes(n - k)} : k \in 1..n}

RECURSIVE Texts(_)
Texts(sh) ==
    IF sh = <<>> THEN {<<>>}
    ELSE {<<line>> \o rest : line \in [1..Head(sh) -> Chars], rest \in Texts(Tail(sh))}

LoadInputs == UNION {Texts(sh) : sh \in Shapes(MaxCells)}

InitLoad ==
    /\ matrix = <<>>
    /\ mainPc = "load"
    /\ InitLocals

Load ==
    /\ mainPc = "load"
    /\ \E l \in LoadInputs : matrix' = parse(l)
    /\ mainPc' = "first"
    /\ UNCHANGED <<pc, powerVars, idx, best, outputs, calls, prior>>

NextLoad == Load \/ MainCall \/ LoopStep \/ LoopExit \/ MainCollect

SpecLoad == InitLoad /\ [][NextLoad]_vars

-----------------------------------------------------------------------------
(* Reference definitions used by the properties *)

\* The rule table of the design: outgoing directions before off-grid dropping.
RuleTable(d, c) ==
    CASE c = "Empty" -> {d}
      [] c = "PositiveMirror" ->
            {CASE d = "East" -> "North" [] d = "West" -> "South"
               [] d = "North" -> "East" [] d = "South" -> "West"}
      [] c = "NegativeMirror" ->
            {CASE d = "East" -> "South" [] d = "West" -> "North"
               [] d = "North" -> "West" [] d = "South" -> "East"}
      [] c = "VerticalSplitter" ->
            IF d \in {"North", "South"} THEN {d} ELSE {"North", "South"}
      [] c = "HorizontalSplitter" ->
            IF d \in {"East", "West"} THEN {d} ELSE {"East", "West"}

\* North = decreasing row, South = increasing row, East = increasing column.
OneFurther(pos, d) ==
    <<pos[1] + (IF d = "East" THEN 1 ELSE IF d = "West" THEN -1 ELSE 0),
      pos[2] + (IF d = "South" THEN 1 ELSE IF d = "North" THEN -1 ELSE 0)>>

InExtent(m, pos) ==
    /\ pos[1] \in 0..(Width(m) - 1)
    /\ pos[2] \in 0..(Height(m) - 1)

Interior(m, pos) ==
    /\ pos[1] \in 1..(Width(m) - 2)
    /\ pos[2] \in 1..(Height(m) - 2)

Successors(m, S) == UNION {Range(get_next_positions(m, b)) : b \in S}

\* Least set containing S and closed under get_next_positions.
RECURSIVE ReachFrom(_, _)
ReachFrom(m, S) ==
    LET N == S \cup Successors(m, S)
    IN IF N = S THEN S ELSE ReachFrom(m, N)

Positions(S) == {b.position : b \in S}

NoDuplicates(s) == \A i, j \in 1..Len(s) : s[i] = s[j] => i = j

-----------------------------------------------------------------------------
(* Properties *)

\* C1: when the loop of get_power ends with an empty frontier, the returned
\* value is the number of distinct positions of the beams reachable from the
\* initial beam by zero or more applications of get_next_positions.
C1_PowerIsReachableCount ==
    (pc = "returned" /\ current_beams = <<>>) =>
        result = Cardinality(Positions(ReachFrom(matrix, Range(beams))))

\* A finished run in which some cell was crossed in two directions.
C1_Witness ==
    /\ pc = "returned"
    /\ current_beams = <<>>
    /\ result > 2
    /\ Cardinality(previous_beams) > result

\* C2: for each incoming direction and each cell type the directions that
\* get_next_positions tries are exactly those of the rule table; on a cell
\* with all four neighbours in the grid they are the directions it returns.
C2_RuleTable ==
    /\ \A d \in Direction, c \in MirrorType : Range(Arm(d, c)) = RuleTable(d, c)
    /\ \A e \in expansions :
          LET d == e.beam.direction
              c == CellAt(matrix, e.beam.position)
          IN /\ Range(Arm(d, c)) = RuleTable(d, c)
             /\ Interior(matrix, e.beam.position) =>
                   {n.direction : n \in Range(e.next)} = RuleTable(d, c)

\* A splitter inside the grid hit broadside has sent out both halves.
C2_Witness ==
    \E e \in expansions :
        /\ Interior(matrix, e.beam.position)
        /\ CellAt(matrix, e.beam.position) = "VerticalSplitter"
        /\ e.beam.direction = "East"
        /\ Len(e.next) = 2

\* C3: for each outgoing direction get_next_positions returns the beam one
\* cell further in that direction exactly when that cell is inside
\* [0, width) x [0, height); it returns nothing else and does not fail.
C3_OffGridDropped ==
    /\ pc # "panicked"
    /\ \A e \in expansions :
          LET p == e.beam.position
              outs == RuleTable(e.beam.direction, CellAt(matrix, p))
          IN /\ \A d \in outs :
                    InExtent(matrix, OneFurther(p, d))
                        <=> (Beam(OneFurther(p, d), d) \in Range(e.next))
             /\ \A n \in Range(e.next) :
                    /\ n.direction \in outs
                    /\ n.position = OneFurther(p, n.direction)
                    /\ InExtent(matrix, n.position)

\* A mirror on the border has sent its beam outward: nothing came back.
C3_Witness ==
    \E e \in expansions :
        /\ CellAt(matrix, e.beam.position) \in {"PositiveMirror", "NegativeMirror"}
        /\ e.next = <<>>
        /\ Width(matrix) > 1
        /\ Height(matrix) > 1

\* C4: get_power of a single in-bounds beam returns at least 1 and at most
\* width x height.
C4_PowerRange ==
    pc = "returned" => (result >= 1 /\ result <= Width(matrix) * Height(matrix))

\* A run that energized every cell of a grid of more than one cell.
C4_Witness ==
    /\ pc = "returned"
    /\ Width(matrix) * Height(matrix) > 1
    /\ result = Width(matrix) * Height(matrix)

\* C5: the loop of get_power never runs more than MAX_STEPS times; when the
\* frontier is still non-empty after the last step the call warns and still
\* returns the number of distinct positions recorded by the steps that ran.
C5_CeilingWarns ==
    /\ steps <= MAX_STEPS
    /\ pc = "returned" =>
          /\ warned <=> (current_beams # <<>>)
          /\ warned => steps = MAX_STEPS
          /\ powered = Positions(previous_beams)
          /\ result = Cardinality(powered)

\* A call stopped by the ceiling: it warned and returned the 1000 positions
\* recorded, the frontier still holding the beam of the next cell.
C5_Witness ==
    /\ pc = "returned"
    /\ warned
    /\ steps = MAX_STEPS
    /\ current_beams # <<>>
    /\ result = MAX_STEPS
    /\ Positions(Range(current_beams)) \cap powered = {}

\* C6: on every rectangular grid and in-bounds starting beam the loop exits
\* because the frontier is empty, never because of the step ceiling, and no
\* warning is printed.
C6_CeilingNeverReached ==
    pc = "returned" => (current_beams = <<>> /\ ~warned)

\* C7: every (position, direction) state is expanded at most once: no
\* frontier holds a beam twice and no beam is in the frontiers of two steps.
C7_ExpandedAtMostOnce ==
    pc = "loop" =>
        /\ NoDuplicates(current_beams)
        /\ Range(current_beams) \cap previous_beams = {}

\* C8: the loop body of get_power runs at most width x height x 4 times:
\* every run of the body records a beam not seen before, so the frontier is
\* empty after at most that many steps, whatever the step ceiling.
C8_StepsBoundedByStateSpace ==
    LET space == Width(matrix) * Height(matrix) * 4
    IN /\ pc = "loop" =>
            /\ steps <= Cardinality(previous_beams)
            /\ Cardinality(previous_beams) <= space
            /\ current_beams # <<>> => steps < space
       /\ pc = "returned" => steps <= space

\* A beam loop was cut: the run came back to its starting beam, dropped it
\* and finished with an empty frontier.
C8_Witness ==
    /\ pc = "returned"
    /\ current_beams = <<>>
    /\ \E e \in expansions : beams[1] \in Range(e.next)

\* C9: on the 10x10 reference grid the first query of main, the beam at
\* (0,0) heading East, reports 46.
C9_ReferencePower ==
    (matrix = parse(RefLines) /\ Len(outputs) >= 1) => outputs[1] = 46

C9_Witness ==
    /\ matrix = parse(RefLines)
    /\ Len(outputs) >= 1
    /\ outputs[1] = 46

\* C10: on the 10x10 reference grid the largest of the four border-scan
\* maxima printed by main is 51.
C10_ReferenceBorderMaximum ==
    (matrix = parse(RefLines) /\ mainPc = "done") =>
        /\ Len(outputs) = 5
        /\ \E i \in 2..5 : outputs[i] = 51
        /\ \A i \in 2..5 : outputs[i] <= 51

C10_Witness ==
    /\ matrix = parse(RefLines)
    /\ mainPc = "done"
    /\ outputs = <<46, 49, 48, 51, 48>>

\* Reference definitions for the straight-line and border-scan properties.
AllEmpty(m) == \A y \in 1..Len(m) : \A x \in 1..Len(m[y]) : m[y][x] = "Empty"

\* The beam stands on the border cell it enters by, heading into the grid.
EntersAtBorder(m, b) ==
    /\ InExtent(m, b.position)
    /\ CASE b.direction = "East"  -> b.position[1] = 0
         [] b.direction = "West"  -> b.position[1] = Width(m) - 1
         [] b.direction = "South" -> b.position[2] = 0
         [] b.direction = "North" -> b.position[2] = Height(m) - 1

Extent(m, d) == IF d \in {"East", "West"} THEN Width(m) ELSE Height(m)

\* The cells of the row (East/West) or column (North/South) of the beam.
StraightLine(m, b) ==
    IF b.direction \in {"East", "West"}
    THEN {<<x, b.position[2]>> : x \in 0..(Width(m) - 1)}
    ELSE {<<b.position[1], y>> : y \in 0..(Height(m) - 1)}

\* C11: on an all-Empty grid a beam entering at a border cell in direction D
\* makes get_power return the grid extent along D, the energized cells being
\* the straight line from the entry cell to the opposite edge.
C11_StraightLinePower ==
    (pc = "returned" /\ Len(matrix) > 0 /\ AllEmpty(matrix)
        /\ EntersAtBorder(matrix, beams[1])) =>
        /\ result = Extent(matrix, beams[1].direction)
        /\ powered = StraightLine(matrix, beams[1])

\* C12: the south-border scan of main calls get_power exactly once for each
\* column x in [0, width), in order, with the beam ((x, height-1), North), and
\* for no other position; every beam it builds is inside the grid.
C12_SouthScanCoversColumns ==
    LET south == SelectSeq(calls, LAMBDA b : b.direction = "North")
    IN /\ Len(south) <= Width(matrix)
       /\ \A i \in 1..Len(south) :
             /\ south[i] = Beam(<<i - 1, Height(matrix) - 1>>, "North")
             /\ InExtent(matrix, south[i].position)
       /\ mainPc = "done" => Len(south) = Width(matrix)

\* C13: grid construction fails, and produces no grid, whenever the input
\* lines have unequal lengths or there is no line: every field that main
\* holds after loading has at least one row and rows of one length.
C13_MalformedGridRejected ==
    mainPc # "load" =>
        /\ Len(matrix) >= 1
        /\ \A i, j \in 1..Len(matrix) : Len(matrix[i]) = Len(matrix[j])

\* C14: two calls of get_power with the same grid and the same starting beam
\* return the same value: the second call starts from fresh locals, ends with
\* the same frontier, seen beams, energized positions and step count as the
\* first, and the grid is the one the first call was given.
C14_SecondCallAgrees ==
    prior # <<>> =>
        /\ matrix = prior.matrix
        /\ beams = prior.beams
        /\ pc = "loop" =>
              /\ steps <= prior.steps
              /\ previous_beams \subseteq prior.previous_beams
              /\ powered \subseteq prior.powered
              /\ steps = 0 =>
                    (current_beams = beams /\ previous_beams = {} /\ powered = {})
        /\ pc = "returned" =>
              /\ result = prior.result
              /\ warned = prior.warned
              /\ steps = prior.steps
              /\ powered = prior.powered
              /\ previous_beams = prior.previous_beams
              /\ current_beams = prior.current_beams

\* The second of two equal calls has returned after a run of several steps
\* that energized several cells.
C14_Witness ==
    /\ prior # <<>>
    /\ pc = "returned"
    /\ steps > 2
    /\ result > 2
    /\ result = prior.result

\* C15: at the start of every loop iteration no beam of the frontier is in
\* the seen-beams set; after the first iteration the frontier holds exactly
\* the beams the rule table produced that were not recorded in this or an
\* earlier step.
C15_FrontierUnseen ==
    pc = "loop" =>
        /\ Range(current_beams) \cap previous_beams = {}
        /\ steps >= 1 =>
              Range(current_beams) =
                  UNION {Range(e.next) : e \in expansions} \ previous_beams

\* A beam that re-entered a recorded state was dropped while another went on.
C15_Witness ==
    /\ pc = "loop"
    /\ steps >= 1
    /\ current_beams # <<>>
    /\ \E e \in expansions : \E n \in Range(e.next) : n \in previous_beams

\* C16: on a rectangular grid with an in-bounds initial beam every beam of
\* every frontier is inside the grid, so the lookup matrix[y][x] never panics.
C16_FrontierInBounds ==
    /\ pc # "panicked"
    /\ \A b \in Range(current_beams) : InExtent(matrix, b.position)

\* After some steps a beam stands on the last column heading out of the grid.
C16_Witness ==
    /\ pc = "loop"
    /\ steps >= 2
    /\ Width(matrix) > 1
    /\ \E b \in Range(current_beams) :
          b.direction = "East" /\ b.position[1] = Width(matrix) - 1

\* C17: the energized positions are exactly the positions of the seen beams,
\* both sets only grow from one iteration to the next, and the value returned
\* counts them alone, not the positions of beams left in the frontier.
C17_PoweredMatchesSeen ==
    /\ [](powered = Positions(previous_beams))
    /\ [][pc = "loop" =>
            (powered \subseteq powered' /\ previous_beams \subseteq previous_beams')]_vars
    /\ [](pc = "returned" => result = Cardinality(Positions(previous_beams)))

\* A call left the loop at the ceiling with a frontier beam on a cell that
\* was not energized.
C17_Witness ==
    /\ pc = "returned"
    /\ steps = MAX_STEPS
    /\ \E b \in Range(current_beams) : b.position \notin powered
    /\ Cardinality(powered) = Cardinality(previous_beams)

====
